---- MODULE Spec2Model ----
(***************************************************************************)
(* The question store of apps/question-builder/src/App.tsx: the zod        *)
(* schema questionSchema, the zustand store useQuestionStore (questions,   *)
(* addQuestion, updateQuestion, deleteQuestion, getQuestionsByCategory)    *)
(* and the derived values of the QuestionBuilderApp component (onSubmit,   *)
(* categories, filteredQuestions).                                         *)
(*                                                                         *)
(* A Question is a record (a function from field names to values); the     *)
(* optional field `options` is simply not in the domain when it is absent. *)
(* A Date is its millisecond value.                                        *)
(***************************************************************************)
EXTENDS Integers, Sequences, FiniteSets, TLC

VARIABLES
    questions,          \* QuestionStore.questions
    now,                \* the wall clock read by Date.now() and new Date(), in ms
    selectedCategory,   \* React state of the category filter
    errors,             \* formState.errors: the fields the resolver rejected
    call,               \* history: the last call made on the store, with its arguments
    before,             \* history: questions when that call was made
    ret,                \* history: what that call returned
    notified,           \* history: whether that call invoked the store's listeners
    submitted,          \* history: the last form data handed to handleSubmit
    deletedIds          \* history: ids of the records deleteQuestion has removed

vars == <<questions, now, selectedCategory, errors, call, before, ret, notified,
          submitted, deletedIds>>

(***************************************************************************)
(* Bounds of the model.                                                    *)
(***************************************************************************)
\* Date.now() when the module is loaded (any value past the seed ids 1 and 2).
StartTime == 9
\* How many milliseconds the clock advances in a run.
MaxTicks == 1
\* How many records the collection holds at most.
MaxQuestions == 2

MaxNow == StartTime + MaxTicks

(***************************************************************************)
(* Number.prototype.toString for a non-negative integer: its decimal       *)
(* digits.                                                                 *)
(***************************************************************************)
Digit(d) ==
    CASE d = 0 -> "0" [] d = 1 -> "1" [] d = 2 -> "2" [] d = 3 -> "3" [] d = 4 -> "4"
      [] d = 5 -> "5" [] d = 6 -> "6" [] d = 7 -> "7" [] d = 8 -> "8" [] d = 9 -> "9"

RECURSIVE toString(_)
toString(n) == IF n < 10 THEN Digit(n) ELSE toString(n \div 10) \o Digit(n % 10)

(***************************************************************************)
(* Object spread {...q, ...p}: the keys of both, p's value where p has     *)
(* the key.                                                                *)
(***************************************************************************)
Spread(q, p) ==
    [f \in (DOMAIN q) \cup (DOMAIN p) |-> IF f \in DOMAIN p THEN p[f] ELSE q[f]]

(***************************************************************************)
(* questionSchema: the fields of the form data the zod schema rejects.     *)
(* z.string().min(1) rejects a missing value and the empty string, z.enum  *)
(* a value outside the enumeration; options is z.array(z.string())         *)
(* .optional(), which accepts any array of strings, and its absence.       *)
(***************************************************************************)
QuestionTypes == {"multiple-choice", "true-false", "short-answer"}
Difficulties == {"easy", "medium", "hard"}

IsStringArray(v) == DOMAIN v = 1..Len(v)

questionSchema(data) ==
    {f \in {"type"} : f \notin DOMAIN data \/ data[f] \notin QuestionTypes}
    \cup {f \in {"question"} : f \notin DOMAIN data \/ data[f] = ""}
    \cup {f \in {"options"} : f \in DOMAIN data /\ ~IsStringArray(data[f])}
    \cup {f \in {"correctAnswer"} : f \notin DOMAIN data \/ data[f] = ""}
    \cup {f \in {"difficulty"} : f \notin DOMAIN data \/ data[f] \notin Difficulties}
    \cup {f \in {"category"} : f \notin DOMAIN data \/ data[f] = ""}

(***************************************************************************)
(* The seed questions of the store; createdAt is new Date() at load time.  *)
(***************************************************************************)
SeedQuestions ==
    << [id |-> "1", type |-> "multiple-choice",
        question |-> "What is the capital of France?",
        options |-> <<"London", "Berlin", "Paris", "Madrid">>,
        correctAnswer |-> "Paris", difficulty |-> "easy",
        category |-> "Geography", createdAt |-> StartTime],
       [id |-> "2", type |-> "true-false", question |-> "The Earth is flat.",
        correctAnswer |-> "False", difficulty |-> "easy",
        category |-> "Science", createdAt |-> StartTime] >>

(***************************************************************************)
(* The store's state updaters: what each operation hands to set().         *)
(*   id is Date.now().toString() read at time t, createdAt is new Date()   *)
(*   read at time t2 (the clock may have advanced between the two reads).  *)
(***************************************************************************)
\* addQuestion putting the new record first instead of last.
addQuestionPrepends(state, question, t, t2) ==
    <<Spread(question, [id |-> toString(t), createdAt |-> t2])>> \o state

addQuestion(state, question, t, t2) ==
    Append(state, Spread(question, [id |-> toString(t), createdAt |-> t2]))

\* updateQuestion inserting a record when none has the id.
updateQuestionUpserts(state, id, updatedQuestion) ==
    IF \E i \in 1..Len(state) : state[i].id = id
    THEN [i \in 1..Len(state) |->
            IF state[i].id = id THEN Spread(state[i], updatedQuestion) ELSE state[i]]
    ELSE Append(state, Spread([id |-> id], updatedQuestion))

updateQuestion(state, id, updatedQuestion) ==
    [i \in 1..Len(state) |->
        IF state[i].id = id THEN Spread(state[i], updatedQuestion) ELSE state[i]]

\* deleteQuestion with the filter's test the wrong way round (=== for !==).
RECURSIVE deleteQuestionKeepsMatches(_, _)
deleteQuestionKeepsMatches(state, id) ==
    IF state = <<>> THEN <<>>
    ELSE (IF Head(state).id = id THEN <<Head(state)>> ELSE <<>>)
         \o deleteQuestionKeepsMatches(Tail(state), id)

RECURSIVE deleteQuestion(_, _)
deleteQuestion(state, id) ==
    IF state = <<>> THEN <<>>
    ELSE (IF Head(state).id # id THEN <<Head(state)>> ELSE <<>>)
         \o deleteQuestion(Tail(state), id)

RECURSIVE filterByCategory(_, _)
filterByCategory(qs, category) ==
    IF qs = <<>> THEN <<>>
    ELSE (IF Head(qs).category = category THEN <<Head(qs)>> ELSE <<>>)
         \o filterByCategory(Tail(qs), category)

\* getQuestionsByCategory taking "all" for a wildcard, as the view does.
getQuestionsByCategoryWithWildcard(category) ==
    IF category = "all" THEN questions ELSE filterByCategory(questions, category)

getQuestionsByCategory(category) == filterByCategory(questions, category)

(***************************************************************************)
(* zustand's set(fn): the updaters above always return a fresh object, so  *)
(* Object.is(nextState, state) is false, the state is replaced and every   *)
(* listener is invoked; set returns nothing.                               *)
(***************************************************************************)
set(nextQuestions) ==
    /\ questions' = nextQuestions
    /\ notified' = TRUE
    /\ ret' = "undefined"

(***************************************************************************)
(* Derived values of the component.                                        *)
(***************************************************************************)
categories == {questions[i].category : i \in 1..Len(questions)}

filteredQuestions ==
    IF selectedCategory = "all" THEN questions
    ELSE filterByCategory(questions, selectedCategory)

(***************************************************************************)
(* Inputs.                                                                 *)
(***************************************************************************)
EmptyOptions == <<"", "", "", "">>

\* Form data handleSubmit can be given: the form's fields as the user left them
\* (the default type, options and difficulty with the three text inputs filled in,
\* and a form whose question and category inputs were left empty).
FormInputs ==
    { [type |-> "multiple-choice", question |-> "Q", options |-> EmptyOptions,
       correctAnswer |-> "A", difficulty |-> "medium", category |-> "all"],
      [type |-> "short-answer", question |-> "", options |-> EmptyOptions,
       correctAnswer |-> "A", difficulty |-> "hard", category |-> ""] }

\* Partial<Question> arguments of updateQuestion.
Patches ==
    { [difficulty |-> "hard"],
      [id |-> "2", createdAt |-> 0] }

AbsentId == "404"

Ids(qs) == {qs[i].id : i \in 1..Len(qs)}

(***************************************************************************)
(* Init: the store as created, the component as first rendered.            *)
(***************************************************************************)
Init ==
    /\ questions = SeedQuestions
    /\ now = StartTime
    /\ selectedCategory = "all"
    /\ errors = {}
    /\ call = [op |-> "none"]
    /\ before = SeedQuestions
    /\ ret = "undefined"
    /\ notified = FALSE
    /\ submitted = <<>>
    /\ deletedIds = {}

(***************************************************************************)
(* Actions.                                                                *)
(***************************************************************************)
\* The wall clock advances by a millisecond.
Tick ==
    /\ now < MaxNow
    /\ now' = now + 1
    /\ UNCHANGED <<questions, selectedCategory, errors, call, before, ret, notified,
                   submitted, deletedIds>>

\* handleSubmit(onSubmit): the resolver validates the data; onSubmit runs only
\* when it reports no error, and calls addQuestion(data).
Submit(data) ==
    /\ submitted' = <<data>>
    /\ errors' = questionSchema(data)
    /\ IF questionSchema(data) = {}
       THEN /\ Len(questions) < MaxQuestions
            /\ \E t2 \in {now, IF now < MaxNow THEN now + 1 ELSE now} :
                  /\ set(addQuestion(questions, data, now, t2))
                  /\ now' = t2
            /\ call' = [op |-> "addQuestion", question |-> data]
            /\ before' = questions
       ELSE UNCHANGED <<questions, now, call, before, ret, notified>>
    /\ UNCHANGED <<selectedCategory, deletedIds>>

UpdateQuestion(id, updatedQuestion) ==
    /\ set(updateQuestion(questions, id, updatedQuestion))
    /\ call' = [op |-> "updateQuestion", id |-> id, question |-> updatedQuestion]
    /\ before' = questions
    /\ UNCHANGED <<now, selectedCategory, errors, submitted, deletedIds>>

DeleteQuestion(id) ==
    /\ set(deleteQuestion(questions, id))
    /\ call' = [op |-> "deleteQuestion", id |-> id]
    /\ before' = questions
    /\ deletedIds' = deletedIds \cup ({id} \cap Ids(questions))
    /\ UNCHANGED <<now, selectedCategory, errors, submitted>>

\* The category select's onChange: one of its options.
SetSelectedCategory(c) ==
    /\ selectedCategory' = c
    /\ UNCHANGED <<questions, now, errors, call, before, ret, notified, submitted,
                   deletedIds>>

SubmitStep == \E data \in FormInputs : Submit(data)
UpdateStep == \E id \in Ids(questions) \cup {AbsentId} : \E p \in Patches : UpdateQuestion(id, p)
DeleteStep == \E id \in Ids(questions) \cup {AbsentId} : DeleteQuestion(id)
SelectStep == \E c \in {"all"} \cup categories : SetSelectedCategory(c)

Next == Tick \/ SubmitStep \/ UpdateStep \/ DeleteStep \/ SelectStep

Spec == Init /\ [][Next]_vars

\* The store driven by create, update and delete calls.
NextStore == Tick \/ SubmitStep \/ UpdateStep \/ DeleteStep

SpecStore == Init /\ [][NextStore]_vars

\* The store driven by create and delete calls only.
NextCD == Tick \/ SubmitStep \/ DeleteStep

SpecCD == Init /\ [][NextCD]_vars

\* The question bank view: questions come and go, the filter is changed.
NextView == SubmitStep \/ DeleteStep \/ SelectStep

SpecView == Init /\ [][NextView]_vars

(***************************************************************************)
(* Vocabulary of the properties.                                           *)
(***************************************************************************)
Last(qs) == qs[Len(qs)]

\* The positions of qs whose record has category c, and the k-th of them.
CategoryPositions(qs, c) == {i \in 1..Len(qs) : qs[i].category = c}

KthPosition(P, k) == CHOOSE i \in P : Cardinality({j \in P : j <= i}) = k

\* r is exactly the records of qs with category c, in the order they have in qs.
IsCategorySubsequence(r, qs, c) ==
    /\ Len(r) = Cardinality(CategoryPositions(qs, c))
    /\ \A k \in 1..Len(r) : r[k] = qs[KthPosition(CategoryPositions(qs, c), k)]

\* r is qs with every record of the given id left out, the rest in order.
PositionsWithout(qs, id) == {i \in 1..Len(qs) : qs[i].id # id}

IsRestInOrder(r, qs, id) ==
    /\ Len(r) = Cardinality(PositionsWithout(qs, id))
    /\ \A k \in 1..Len(r) : r[k] = qs[KthPosition(PositionsWithout(qs, id), k)]

\* Category values a caller may ask for.
CategoryValues == {"all", "Geography", "geography", "Science"}

\* A candidate with fewer than two non-empty options.
FewOptions(d) ==
    \/ "options" \notin DOMAIN d
    \/ Cardinality({i \in DOMAIN d.options : d.options[i] # ""}) < 2

UpdatedExisting == call.op = "updateQuestion" /\ call.id \in Ids(before)
UpdatedAbsent == call.op = "updateQuestion" /\ call.id \notin Ids(before)
DeletedExisting == call.op = "deleteQuestion" /\ call.id \in Ids(before)
DeletedAbsent == call.op = "deleteQuestion" /\ call.id \notin Ids(before)
Created == call.op = "addQuestion"

(***************************************************************************)
(* C1: in every state reachable by create, update and delete calls, no two *)
(* records of the collection have the same id.  (Refuted already by create *)
(* and delete calls alone: two addQuestion calls in one millisecond.)      *)
(***************************************************************************)
C1_UniqueIds ==
    \A i, j \in 1..Len(questions) : i # j => questions[i].id # questions[j].id

(***************************************************************************)
(* C2: update(id, partialFields) on an existing id leaves the id and the   *)
(* createdAt of the targeted record as they were, also when partialFields  *)
(* carries an id or a createdAt.                                           *)
(***************************************************************************)
C2_UpdateKeepsIdAndCreatedAt ==
    UpdatedExisting =>
        \A i \in 1..Len(before) :
            before[i].id = call.id =>
                /\ questions[i].id = before[i].id
                /\ questions[i].createdAt = before[i].createdAt

C5_DeleteRemovesExactlyOne ==
    DeletedExisting =>
        /\ call.id \notin Ids(questions)
        /\ Len(questions) = Len(before) - 1
        /\ IsRestInOrder(questions, before, call.id)

(***************************************************************************)
(* C6: create increases the length of the collection by exactly 1, places  *)
(* the new record (the fields it was given) at the end, and leaves every   *)
(* previously stored record unchanged and at its previous position.        *)
(***************************************************************************)
C6_CreateAppends ==
    Created =>
        /\ Len(questions) = Len(before) + 1
        /\ \A i \in 1..Len(before) : questions[i] = before[i]
        /\ \A f \in DOMAIN call.question : Last(questions)[f] = call.question[f]

C6_Witness == Created /\ Len(before) >= 1 /\ Len(questions) = MaxQuestions

(***************************************************************************)
(* C7: update on an existing id changes only the fields named in           *)
(* partialFields and only on the one record with that id: the length, the  *)
(* position of the updated record and every other record are unchanged.    *)
(***************************************************************************)
C7_UpdateTouchesOneRecord ==
    UpdatedExisting =>
        /\ Len(questions) = Len(before)
        /\ \E k \in 1..Len(before) :
              /\ before[k].id = call.id
              /\ \A i \in 1..Len(before) : i # k => questions[i] = before[i]
              /\ \A f \in DOMAIN before[k] \ DOMAIN call.question :
                    f \in DOMAIN questions[k] /\ questions[k][f] = before[k][f]

(***************************************************************************)
(* C8, as claimed: for the store query and for the view alike, the         *)
(* category "all" yields the whole list, and any other category c exactly  *)
(* the records of category c in insertion order.                           *)
(***************************************************************************)
C8_AllIsWildcardEverywhere ==
    /\ getQuestionsByCategory("all") = questions
    /\ \A c \in CategoryValues \ {"all"} :
          IsCategorySubsequence(getQuestionsByCategory(c), questions, c)
    /\ IF selectedCategory = "all" THEN filteredQuestions = questions
       ELSE IsCategorySubsequence(filteredQuestions, questions, selectedCategory)

(***************************************************************************)
(* C8, amended: the view's filteredQuestions is the whole list for "all"   *)
(* and otherwise exactly the records of the selected category in insertion *)
(* order; the store query getQuestionsByCategory(c) is exactly the records *)
(* whose category equals c, in insertion order, for every c, "all" being   *)
(* no wildcard to it.                                                      *)
(***************************************************************************)
C8_AllIsWildcardInViewOnly ==
    /\ \A c \in CategoryValues :
          IsCategorySubsequence(getQuestionsByCategory(c), questions, c)
    /\ IF selectedCategory = "all" THEN filteredQuestions = questions
       ELSE IsCategorySubsequence(filteredQuestions, questions, selectedCategory)

C8_Witness ==
    /\ selectedCategory = "Geography"
    /\ "all" \in categories
    /\ Len(filteredQuestions) = 1
    /\ Len(getQuestionsByCategory("all")) = 1
    /\ Len(questions) = 2

(***************************************************************************)
(* C9: over create and delete calls, once a record has been deleted its id *)
(* is never assigned again: no create produces a record whose id is the id *)
(* of a record that was deleted before.                                    *)
(***************************************************************************)
C9_DeletedIdNeverReassigned ==
    Created => Last(questions).id \notin deletedIds

(***************************************************************************)
(* C10: a multiple-choice candidate with fewer than 2 non-empty options    *)
(* (the form default of four empty strings included) gets a violation on   *)
(* the options field, so submitting the form adds no such record.          *)
(***************************************************************************)
C10_FewOptionsRejected ==
    /\ (Len(submitted) = 1 /\ submitted[1].type = "multiple-choice"
            /\ FewOptions(submitted[1])) => "options" \in errors
    /\ \A i \in 1..Len(questions) :
          questions[i].type = "multiple-choice" => ~FewOptions(questions[i])

====
